---- MODULE Spec2Model ----
(***************************************************************************)
(* Model of the message ingestion subsystem (message_ingest.py).           *)
(*                                                                         *)
(* Text is modelled as sequences of tokens.  A token is a one-character    *)
(* string, or a keyword of the IRC grammar kept as one unit ("PRIVMSG",    *)
(* "PING", the tag keys).  Python str operations (strip, lower, split,     *)
(* startswith, the PRIVMSG regular expression) are operators on token      *)
(* sequences that compute what the Python operation computes.              *)
(*                                                                         *)
(* Wall-clock time is a natural number of milliseconds.                    *)
(***************************************************************************)
EXTENDS Integers, Sequences, FiniteSets, TLC

VARIABLES
    pc,          \* position of the program under the current specification
    fnIn,        \* input of the pure function under check (pure-function specs)
    fnOut,       \* its result
    source,      \* args.source: "twitter-thread" or "twitch-chat"
    args,        \* the parsed command line
    now,         \* the wall clock, in milliseconds
    messages,    \* the list of IngestedMessage the run has built so far
    next_token,  \* fetch_twitter_thread_messages: next_token
    page,        \* fetch_twitter_thread_messages: search requests issued
    delivered,   \* tweets the search API has returned in this run
    http,        \* the HTTP requests issued, each with the answer it got
    root_tweet,  \* run_twitter_thread: root_tweet
    twitterDoc,  \* the JSON document at the Twitter output path
    twitchLog,   \* the lines of the channel log at the Twitch output path
    channel,     \* capture_twitch_chat_messages: channel (normalized)
    deadline,    \* capture_twitch_chat_messages: deadline
    buffer,      \* capture_twitch_chat_messages: buffer
    inFlight,    \* the rest of a line the server has sent in part
    linesSent,   \* lines the chat server has started to send
    sock,        \* capture_twitch_chat_messages: the state of sock
    sent,        \* the lines the capture has sent on sock
    handled,     \* the lines the receive loop has handled, each with the
                 \* lengths of sent and messages once it was handled
    peer,        \* the chat server: "none", "accepting", "rejecting", "closed"
    received,    \* the bytes sock.recv has returned so far, in order
    keys,        \* the secrets get_secret finds
    events,      \* the event log logs/calls/calls.json, as the event names
    exc,         \* the exception in flight, "" when there is none
    exit_code,   \* what main returned, -1 while it has not
    writes       \* the calls that wrote to the output path: atomic_write_json
                 \* for the Twitter document, append_jsonl_many for the log

fnVars == <<fnIn, fnOut>>

twitterVars == <<next_token, page, delivered, http, root_tweet, twitterDoc>>

twitchVars ==
    <<twitchLog, channel, deadline, buffer, inFlight, linesSent, sock, sent, handled, peer,
      received>>

mainVars == <<source, args, keys, events, exc, exit_code, writes>>

runVars == <<mainVars, now, messages, twitterVars, twitchVars>>

vars == <<pc, fnVars, runVars>>

\* Python's None where a record is expected; an absent text is <<>>, which the
\* code treats like None wherever it reads one (`x or default`, `if x`).
None == [none |-> TRUE]

(***************************************************************************)
(* Python str helpers on token sequences                                   *)
(***************************************************************************)
Whitespace == {" ", "\t", "\r", "\n"}

RECURSIVE LStrip(_)
LStrip(s) ==
    IF s # <<>> /\ Head(s) \in Whitespace THEN LStrip(Tail(s)) ELSE s

RECURSIVE RStrip(_)
RStrip(s) ==
    IF s # <<>> /\ s[Len(s)] \in Whitespace
    THEN RStrip(SubSeq(s, 1, Len(s) - 1))
    ELSE s

\* str.strip()
Strip(s) == RStrip(LStrip(s))

\* str.lower() on one token, then on a text
LowerTok(t) ==
    CASE t = "C" -> "c"
      [] t = "D" -> "d"
      [] t = "N" -> "n"
      [] OTHER -> t

Lower(s) == [i \in 1..Len(s) |-> LowerTok(s[i])]

\* index of the first token of s that is in set S, 0 when there is none
RECURSIVE FirstIn(_, _, _)
FirstIn(s, S, i) ==
    IF i > Len(s) THEN 0
    ELSE IF s[i] \in S THEN i
    ELSE FirstIn(s, S, i + 1)

\* index of the first token of s that is NOT in set S, 0 when there is none
RECURSIVE FirstNotIn(_, _, _)
FirstNotIn(s, S, i) ==
    IF i > Len(s) THEN 0
    ELSE IF s[i] \notin S THEN i
    ELSE FirstNotIn(s, S, i + 1)

\* str.startswith
StartsWith(s, p) == Len(s) >= Len(p) /\ SubSeq(s, 1, Len(p)) = p

\* s[n:]
Drop(s, n) == SubSeq(s, n + 1, Len(s))

\* str.split(sep) for a one-token separator
RECURSIVE Split(_, _)
Split(s, sep) ==
    LET i == FirstIn(s, {sep}, 1)
    IN  IF i = 0 THEN <<s>>
        ELSE <<SubSeq(s, 1, i - 1)>> \o Split(Drop(s, i), sep)

\* str.isdigit() and int()
Digits == {"0", "1", "2", "3", "4", "5", "6", "7", "8", "9"}

IsDigit(s) == s # <<>> /\ \A i \in 1..Len(s) : s[i] \in Digits

DigitVal(d) ==
    CASE d = "0" -> 0 [] d = "1" -> 1 [] d = "2" -> 2 [] d = "3" -> 3
      [] d = "4" -> 4 [] d = "5" -> 5 [] d = "6" -> 6 [] d = "7" -> 7
      [] d = "8" -> 8 [] d = "9" -> 9

RECURSIVE ToInt(_)
ToInt(s) ==
    IF s = <<>> THEN 0
    ELSE 10 * ToInt(SubSeq(s, 1, Len(s) - 1)) + DigitVal(s[Len(s)])

DigitTok(n) ==
    CASE n = 0 -> "0" [] n = 1 -> "1" [] n = 2 -> "2" [] n = 3 -> "3"
      [] n = 4 -> "4" [] n = 5 -> "5" [] n = 6 -> "6" [] n = 7 -> "7"
      [] n = 8 -> "8" [] n = 9 -> "9"

\* str(n) for a natural number
RECURSIVE ToStr(_)
ToStr(n) ==
    IF n < 10 THEN <<DigitTok(n)>>
    ELSE ToStr(n \div 10) \o <<DigitTok(n % 10)>>

(***************************************************************************)
(* Timestamps.  An ISO-8601 string is the record of its parts: the whole   *)
(* seconds, the microseconds (printed only when non-zero) and the suffix.  *)
(***************************************************************************)
\* datetime.fromtimestamp(ms / 1000, tz=timezone.utc).isoformat()
IsoFormat(ms) ==
    [sec |-> ms \div 1000, micro |-> (ms % 1000) * 1000, suffix |-> "+00:00"]

\* .replace("+00:00", "Z")
ReplaceUtcOffset(iso) ==
    IF iso.suffix = "+00:00" THEN [iso EXCEPT !.suffix = "Z"] ELSE iso

\* utc_now_iso() read when the wall clock shows `clock`
utc_now_iso(clock) == ReplaceUtcOffset(IsoFormat(clock))

\* Python's < on two such strings of equal date width: the seconds decide;
\* within a second "…SS.ffffffZ" sorts before "…SSZ" because "." < "Z".
IsoKey(iso) ==
    iso.sec * 1000001 + (IF iso.micro = 0 THEN 1000000 ELSE iso.micro)

IsoLeq(a, b) == IsoKey(a) <= IsoKey(b)

(***************************************************************************)
(* IrcLineParser                                                           *)
(***************************************************************************)
Letters == {"a", "b", "c", "d", "h", "n", "u", "x", "C", "D", "N"}

\* [A-Za-z0-9_]
WordChars == Letters \cup Digits \cup {"_"}

\* re.match of
\*   ^(?:@(?P<tags>[^ ]+) )?:(?P<nick>[^!]+)![^ ]+ PRIVMSG #(?P<channel>[A-Za-z0-9_]+) :(?P<message>.*)$
\* Every repetition is followed by a token it cannot contain, so each group
\* ends at the first such token and the match is unique.
TWITCH_PRIVMSG_RE(s) ==
    LET hasTags == s # <<>> /\ Head(s) = "@"
        sp      == FirstIn(s, {" "}, 1)
        tagsOk  == hasTags /\ sp > 2
        tags    == IF tagsOk THEN SubSeq(s, 2, sp - 1) ELSE <<>>
        r1      == IF tagsOk THEN Drop(s, sp) ELSE s
        bang    == FirstIn(r1, {"!"}, 1)
        nick    == SubSeq(r1, 2, bang - 1)
        r2      == Drop(r1, bang)
        sp2     == FirstIn(r2, {" "}, 1)
        r3      == Drop(r2, sp2 - 1)
        r4      == Drop(r3, 4)
        chEnd   == FirstNotIn(r4, WordChars, 1)
        chan    == SubSeq(r4, 1, chEnd - 1)
        r5      == Drop(r4, chEnd - 1)
        message == Drop(r5, 2)
    IN  IF /\ hasTags => tagsOk
           /\ r1 # <<>> /\ Head(r1) = ":"
           /\ bang > 2
           /\ sp2 > 1
           /\ StartsWith(r3, <<" ", "PRIVMSG", " ", "#">>)
           /\ chEnd > 1
           /\ StartsWith(r5, <<" ", ":">>)
           /\ \A i \in 1..Len(message) : message[i] # "\n"
        THEN [tags |-> tags, nick |-> nick, channel |-> chan, message |-> message]
        ELSE None

\* parse_irc_tags followed by tags.get(key): the value of the last item with
\* that key, <<>> when no item has it (a bare key has the value "")
RECURSIVE TagLookup(_, _)
TagLookup(items, key) ==
    IF items = <<>> THEN <<>>
    ELSE LET item == items[Len(items)]
             eq   == FirstIn(item, {"="}, 1)
             k    == IF eq = 0 THEN item ELSE SubSeq(item, 1, eq - 1)
             v    == IF eq = 0 THEN <<>> ELSE Drop(item, eq)
         IN  IF k = key THEN v
             ELSE TagLookup(SubSeq(items, 1, Len(items) - 1), key)

parse_irc_tags(tag_text, key) ==
    IF tag_text = <<>> THEN <<>> ELSE TagLookup(Split(tag_text, ";"), key)

\* x or y
OrElse(x, y) == IF x # <<>> THEN x ELSE y

\* faulty variant: text = match.group("message"), the payload taken as it is
MessageText_unstripped(message) == message

\* text = match.group("message").strip()
MessageText(message) == Strip(message)

\* faulty variant: the channel test without the case folding of its right side
ChannelRejected_caseSensitive(chan, expected_channel) == chan # expected_channel

\* if channel != expected_channel.lower(): return None
ChannelRejected(chan, expected_channel) == chan # Lower(expected_channel)

\* parse_twitch_privmsg(line, expected_channel), the wall clock showing `clock`
parse_twitch_privmsg(line, expected_channel, clock) ==
    LET match == TWITCH_PRIVMSG_RE(Strip(line))
        chan == Lower(match.channel)
        nick == match.nick
        sent_ts_ms == parse_irc_tags(match.tags, <<"tmi-sent-ts">>)
        sent_at_utc ==
            IF sent_ts_ms # <<>> /\ IsDigit(sent_ts_ms)
            THEN ReplaceUtcOffset(IsoFormat(ToInt(sent_ts_ms)))
            ELSE utc_now_iso(clock)
        message_id ==
            OrElse(parse_irc_tags(match.tags, <<"id">>),
                   <<"twitch-">> \o chan \o <<"-">>
                      \o OrElse(sent_ts_ms, ToStr(clock)) \o <<"-">> \o nick)
    IN  IF match = None THEN None
        ELSE IF ChannelRejected(chan, expected_channel) THEN None
        ELSE [platform |-> "twitch",
              scope |-> <<"channel:">> \o chan,
              message_id |-> message_id,
              username |-> OrElse(parse_irc_tags(match.tags, <<"display-name">>), nick),
              user_id |-> parse_irc_tags(match.tags, <<"user-id">>),
              sent_at_utc |-> sent_at_utc,
              captured_at_utc |-> utc_now_iso(clock),
              text |-> MessageText(match.message)]

(***************************************************************************)
(* ThreadAssembler                                                         *)
(***************************************************************************)
\* list.sort(key=lambda m: m.sent_at_utc) / sorted(...): a stable sort, as an
\* insertion sort that puts an element after the elements with an equal key
RECURSIVE InsertBySentAt(_, _)
InsertBySentAt(sorted, m) ==
    IF sorted = <<>> THEN <<m>>
    ELSE IF IsoLeq(sorted[Len(sorted)].sent_at_utc, m.sent_at_utc)
    THEN Append(sorted, m)
    ELSE Append(InsertBySentAt(SubSeq(sorted, 1, Len(sorted) - 1), m),
                sorted[Len(sorted)])

RECURSIVE SortBySentAt(_)
SortBySentAt(ms) ==
    IF ms = <<>> THEN <<>>
    ELSE InsertBySentAt(SortBySentAt(SubSeq(ms, 1, Len(ms) - 1)), ms[Len(ms)])

MessageIds(ms) == { ms[i].message_id : i \in 1..Len(ms) }

\* faulty variant: merged = [*messages, root_tweet] without the sort
MergeRoot_unsorted(msgs, root) == Append(msgs, root)

\* merged = [*messages, root_tweet]; merged.sort(...)
MergeRoot(msgs, root) == SortBySentAt(Append(msgs, root))

ensure_root_tweet_present(msgs, root) ==
    IF root = None THEN msgs
    ELSE IF root.message_id \in MessageIds(msgs) THEN msgs
    ELSE MergeRoot(msgs, root)

\* a JSON list, as opposed to null
JsonList(items) == [list |-> items]

\* asdict(main_message) with the "replies" key added
MainPayload(m, replies) ==
    [platform |-> m.platform, scope |-> m.scope, message_id |-> m.message_id,
     username |-> m.username, user_id |-> m.user_id,
     sent_at_utc |-> m.sent_at_utc, captured_at_utc |-> m.captured_at_utc,
     text |-> m.text, replies |-> replies]

\* faulty variant: ordered_messages in the order of the input
OrderedMessages_unsorted(msgs) == msgs

\* ordered_messages = sorted(messages, key=lambda message: message.sent_at_utc)
OrderedMessages(msgs) == SortBySentAt(msgs)

\* faulty variant: main_message without the search for the conversation id
SelectMain_earliest(ordered_messages, conversation_id) ==
    IF ordered_messages # <<>> THEN ordered_messages[1] ELSE None

\* next((m for m in ordered_messages if m.message_id == conversation_id),
\*      ordered_messages[0] if ordered_messages else None)
SelectMain(ordered_messages, conversation_id) ==
    LET matching == SelectSeq(ordered_messages,
                              LAMBDA m : m.message_id = conversation_id)
    IN  IF matching # <<>> THEN matching[1]
        ELSE IF ordered_messages # <<>> THEN ordered_messages[1]
        ELSE None

\* [m for m in ordered_messages if main_message and m.message_id != main_message.message_id]
\*     if main_message else []
SelectReplies(ordered_messages, main_message) ==
    IF main_message # None
    THEN SelectSeq(ordered_messages,
                   LAMBDA m : m.message_id # main_message.message_id)
    ELSE <<>>

\* faulty variant: "replies" without the `else None`
RepliesValue_neverNull(reply_messages) == JsonList(reply_messages)

\* [asdict(m) for m in reply_messages] if reply_messages else None
RepliesValue(reply_messages) ==
    IF reply_messages # <<>> THEN JsonList(reply_messages) ELSE None

build_twitter_audit_payload(conversation_id, msgs, since_id, pages, max_results, clock) ==
    LET ordered_messages == OrderedMessages(msgs)
        main_message == SelectMain(ordered_messages, conversation_id)
        reply_messages == SelectReplies(ordered_messages, main_message)
        main_payload ==
            IF main_message # None
            THEN MainPayload(main_message, RepliesValue(reply_messages))
            ELSE None
    IN  [meta |-> [source |-> "twitter-thread",
                   conversation_id |-> conversation_id,
                   since_id |-> since_id,
                   pages_requested |-> pages,
                   max_results_per_page |-> max_results,
                   tweet_count |-> Len(msgs),
                   reply_count |-> Len(reply_messages),
                   captured_at_utc |-> utc_now_iso(clock)],
         Main |-> main_payload]

(***************************************************************************)
(* TwitterPageFetcher                                                      *)
(***************************************************************************)
\* IngestedMessage(...) built from one tweet of a response; `users` are the
\* usernames of includes.users by author id
TweetToMessage(tweet, users, conversation_id, clock) ==
    LET author_id == tweet.author_id
        listed == IF author_id \in DOMAIN users THEN users[author_id] ELSE <<>>
    IN  [platform |-> "twitter",
         scope |-> <<"conversation_id:">> \o conversation_id,
         message_id |-> tweet.id,
         username |-> OrElse(OrElse(listed, author_id), <<"unknown">>),
         user_id |-> author_id,
         sent_at_utc |-> IF tweet.created_at = None THEN utc_now_iso(clock)
                         ELSE tweet.created_at,
         captured_at_utc |-> utc_now_iso(clock),
         text |-> Strip(tweet.text)]

\* for tweet in payload.get("data", []): messages.append(...)
RECURSIVE AppendTweets(_, _, _, _, _)
AppendTweets(msgs, data, users, conversation_id, clock) ==
    IF data = <<>> THEN msgs
    ELSE AppendTweets(Append(msgs, TweetToMessage(Head(data), users, conversation_id, clock)),
                      Tail(data), users, conversation_id, clock)

\* range(max(1, pages))
PageLimit(pages) == IF pages > 1 THEN pages ELSE 1

\* what fetch_twitter_thread_messages returns once the page loop has ended
FetchResult(msgs) == SortBySentAt(msgs)

(***************************************************************************)
(* TwitchChatCapture                                                       *)
(***************************************************************************)
\* str.lstrip("#")
RECURSIVE LStripHash(_)
LStripHash(s) ==
    IF s # <<>> /\ Head(s) = "#" THEN LStripHash(Tail(s)) ELSE s

\* channel.lstrip("#").lower()
NormalizeChannel(ch) == Lower(LStripHash(ch))

\* faulty variant: the prefix is put in front of every token
normalize_twitch_oauth_token_alwaysPrefixed(token) == <<"oauth:">> \o token

\* normalize_twitch_oauth_token
normalize_twitch_oauth_token(token) ==
    IF token = <<>> THEN token
    ELSE IF StartsWith(token, <<"oauth:">>) THEN token
    ELSE <<"oauth:">> \o token

\* the characters of the run that UTF-8 encodes in more than one byte
MultiByte == [c \in {"U+00E9"} |-> <<"0xC3", "0xA9">>]

\* str.encode("utf-8"): one byte for an ASCII character, two for U+00E9
RECURSIVE Encode(_)
Encode(text) ==
    IF text = <<>> THEN <<>>
    ELSE (IF Head(text) \in DOMAIN MultiByte THEN MultiByte[Head(text)] ELSE <<Head(text)>>)
             \o Encode(Tail(text))

\* bytes.decode("utf-8", errors="ignore"): a lead byte followed by its
\* continuation byte is one character; a lead byte without it, and a
\* continuation byte without its lead byte, are dropped
RECURSIVE Decode(_)
Decode(bytes) ==
    IF bytes = <<>> THEN <<>>
    ELSE IF \E c \in DOMAIN MultiByte : Head(bytes) = MultiByte[c][1]
    THEN IF \E c \in DOMAIN MultiByte : StartsWith(bytes, MultiByte[c])
         THEN <<CHOOSE c \in DOMAIN MultiByte : StartsWith(bytes, MultiByte[c])>>
                  \o Decode(Drop(bytes, 2))
         ELSE Decode(Tail(bytes))
    ELSE IF \E c \in DOMAIN MultiByte : Head(bytes) = MultiByte[c][2]
    THEN Decode(Tail(bytes))
    ELSE <<Head(bytes)>> \o Decode(Tail(bytes))

\* index of the first "\r\n" in s, 0 when there is none
RECURSIVE FindCRLF(_, _)
FindCRLF(s, i) ==
    IF i >= Len(s) THEN 0
    ELSE IF s[i] = "\r" /\ s[i + 1] = "\n" THEN i
    ELSE FindCRLF(s, i + 1)

\* faulty variant: the PONG names the usual server, not the PING's token
PongFor_fixedToken(line) == <<"PONG", " ", ":", "tmi.twitch.tv">>

\* server = line.split(" ", 1)[1]; f"PONG {server}"
PongFor(line) == <<"PONG", " ">> \o Drop(line, FirstIn(line, {" "}, 1))

\* the guard of the inner loop: while "\r\n" in buffer
MoreLines(buf) == FindCRLF(buf, 1) # 0

\* what one handled line leaves in the trail of the receive loop
Handled(line, st) ==
    [line |-> line, sent |-> Len(st.sent), messages |-> Len(st.messages)]

\* one pass of the inner loop, from the state
\* st = [buffer, messages, sent, handled, send_fails, exc]; send_fails says
\* that the next sock.sendall raises, which leaves the loop with exc set
HandleLine(st, chan, clock) ==
    LET i    == FindCRLF(st.buffer, 1)
        line == SubSeq(st.buffer, 1, i - 1)
        rest == Drop(st.buffer, i + 1)
        msg  == parse_twitch_privmsg(line, chan, clock)
        skip == [st EXCEPT !.buffer = rest]
        pong == [st EXCEPT !.buffer = rest, !.sent = Append(@, PongFor(line))]
        more == [st EXCEPT !.buffer = rest, !.messages = Append(@, msg)]
    IN  IF line = <<>>
        THEN skip
        ELSE IF StartsWith(line, <<"PING", " ">>)
        THEN IF st.send_fails
             THEN [skip EXCEPT !.exc = "BrokenPipeError"]
             ELSE [pong EXCEPT !.handled = Append(@, Handled(line, pong))]
        ELSE IF msg # None
        THEN [more EXCEPT !.handled = Append(@, Handled(line, more))]
        ELSE [skip EXCEPT !.handled = Append(@, Handled(line, skip))]

\* the one element of a set of one element
The(S) == CHOOSE x \in S : TRUE

\* while "\r\n" in buffer: ... , until no line is left or a send raises
RECURSIVE DrainBuffer(_, _, _)
DrainBuffer(st, chan, clock) ==
    IF ~MoreLines(st.buffer) \/ st.exc # "" THEN st
    ELSE The({ DrainBuffer(after, chan, clock) : after \in { HandleLine(st, chan, clock) } })

\* faulty variant: the guard does not look at the quota
LoopGuard_deadlineOnly(clock, dl, msgs, max_messages) == clock < dl

\* the guard of the receive loop
LoopGuard(clock, dl, msgs, max_messages) ==
    clock < dl /\ Len(msgs) < max_messages

\* what capture_twitch_chat_messages returns
CaptureResult(msgs) == msgs

(***************************************************************************)
(* The specifications of the pure functions leave the run's state alone    *)
(***************************************************************************)
RunIdle ==
    /\ source = "none"
    /\ args = None
    /\ keys = None
    /\ events = <<>>
    /\ exc = ""
    /\ exit_code = -1
    /\ now = 0
    /\ messages = <<>>
    /\ next_token = <<>>
    /\ page = 0
    /\ delivered = 0
    /\ http = <<>>
    /\ root_tweet = None
    /\ twitterDoc = None
    /\ twitchLog = <<>>
    /\ channel = <<>>
    /\ deadline = 0
    /\ buffer = <<>>
    /\ inFlight = <<>>
    /\ linesSent = 0
    /\ sock = "none"
    /\ sent = <<>>
    /\ handled = <<>>
    /\ peer = "none"
    /\ received = <<>>
    /\ writes = 0

(***************************************************************************)
(* Inputs of the parser: wire lines built from their parts                 *)
(***************************************************************************)
\* [@tags ]:nick!user PRIVMSG #channel :payload
PrivmsgLine(tags, nick, chan, payload) ==
    (IF tags = <<>> THEN <<>> ELSE <<"@">> \o tags \o <<" ">>)
        \o <<":">> \o nick \o <<"!", "u", " ", "PRIVMSG", " ", "#">>
        \o chan \o <<" ", ":">> \o payload

PingLine == <<"PING", " ", ":", "x">>

NoticeLine == <<":", "x", " ", "NOTICE", " ", "#", "c", " ", ":", "h">>

TagTexts ==
    { <<>>,
      <<"id", "=", "a">>,
      <<"mod">>,
      <<"tmi-sent-ts", "=", "x">>,
      <<"id", "=", "a", ";", "tmi-sent-ts", "=", "1", "5", "0", "0">>,
      <<"display-name", "=", "N", ";", "id", "=", "b", ";",
        "tmi-sent-ts", "=", "1", "0", "0", "0", ";", "user-id", "=", "7">> }

ChannelNames == { <<"c">>, <<"C">>, <<"d">>, <<"c", "d">> }

MaxPayload == 3

RECURSIVE SeqsUpTo(_, _)
SeqsUpTo(S, n) ==
    IF n = 0 THEN { <<>> }
    ELSE LET shorter == SeqsUpTo(S, n - 1)
         IN  shorter \cup { Append(q, x) : q \in shorter, x \in S }

Payloads == SeqsUpTo({" ", "h"}, MaxPayload)

ClockReadings == {0, 1000, 1500}

ParseInputs ==
    { [valid |-> TRUE, line |-> PrivmsgLine(t, <<"n">>, c, p),
       channel |-> c, payload |-> p, expected |-> e, now |-> w] :
          t \in TagTexts, c \in ChannelNames, p \in Payloads,
          e \in ChannelNames, w \in ClockReadings }
    \cup
    { [valid |-> FALSE, line |-> l, channel |-> <<>>, payload |-> <<>>,
       expected |-> e, now |-> w] :
          l \in {PingLine, NoticeLine, <<>>}, e \in ChannelNames, w \in ClockReadings }

(***************************************************************************)
(* Specification of the parser as a pure function                          *)
(***************************************************************************)
InitParse ==
    /\ pc = "input"
    /\ fnIn \in ParseInputs
    /\ fnOut = None
    /\ RunIdle

ApplyParse ==
    /\ pc = "input"
    /\ pc' = "output"
    /\ fnOut' = parse_twitch_privmsg(fnIn.line, fnIn.expected, fnIn.now)
    /\ UNCHANGED <<fnIn, runVars>>

NextParse == ApplyParse

SpecParse == InitParse /\ [][NextParse]_vars

(***************************************************************************)
(* Specification of the assembler's functions as pure functions            *)
(***************************************************************************)
IsoZ(ms) == ReplaceUtcOffset(IsoFormat(ms))

AsmIds == { <<"100">>, <<"101">>, <<"102">> }

AsmTimes == { IsoZ(1000), IsoZ(2000) }

AsmUsers == [u \in { <<"7">> } |-> <<"b", "o", "b">>]

AsmMessages ==
    { TweetToMessage([id |-> i, author_id |-> <<"7">>, created_at |-> t, text |-> <<"h">>],
                     AsmUsers, <<"100">>, 0) : i \in AsmIds, t \in AsmTimes }

MaxMsgs == 3

AsmLists == SeqsUpTo(AsmMessages, MaxMsgs)

ConversationIds == { <<"100">>, <<"999">> }

AssembleInputs ==
    { [fn |-> "ensure_root_tweet_present", msgs |-> l, root |-> r,
       conversation_id |-> <<"100">>] :
          l \in AsmLists, r \in AsmMessages \cup {None} }
    \cup
    { [fn |-> "build_twitter_audit_payload", msgs |-> l, root |-> None,
       conversation_id |-> c] :
          l \in AsmLists, c \in ConversationIds }

InitAssemble ==
    /\ pc = "input"
    /\ fnIn \in AssembleInputs
    /\ fnOut = None
    /\ RunIdle

ApplyEnsureRoot ==
    /\ pc = "input"
    /\ fnIn.fn = "ensure_root_tweet_present"
    /\ pc' = "output"
    /\ fnOut' = JsonList(ensure_root_tweet_present(fnIn.msgs, fnIn.root))
    /\ UNCHANGED <<fnIn, runVars>>

ApplyBuildPayload ==
    /\ pc = "input"
    /\ fnIn.fn = "build_twitter_audit_payload"
    /\ pc' = "output"
    /\ fnOut' = build_twitter_audit_payload(fnIn.conversation_id, fnIn.msgs, <<>>, 1, 100, 0)
    /\ UNCHANGED <<fnIn, runVars>>

NextAssemble == ApplyEnsureRoot \/ ApplyBuildPayload

SpecAssemble == InitAssemble /\ [][NextAssemble]_vars

(***************************************************************************)
(* Output paths: sanitize_path_component and build_output_path             *)
(***************************************************************************)
\* faulty variant: the path separators are taken for safe characters
SafePathChars_withSeparators == Letters \cup Digits \cup {"_", ".", "-", "/", "\\"}

\* [A-Za-z0-9_.-]
SafePathChars == Letters \cup Digits \cup {"_", ".", "-"}

\* re.sub(r"[^A-Za-z0-9_.-]", replacement, str(value)), replacement "_"
sanitize_path_component(value) ==
    [i \in 1..Len(value) |-> IF value[i] \in SafePathChars THEN value[i] ELSE "_"]

RECURSIVE NonEmpty(_)
NonEmpty(segments) ==
    IF segments = <<>> THEN <<>>
    ELSE (IF Head(segments) = <<>> THEN <<>> ELSE <<Head(segments)>>)
            \o NonEmpty(Tail(segments))

\* Path / str: a path is the sequence of its segments, and a name that holds
\* "/" adds one segment for each part between them
PathJoin(path, name) == path \o NonEmpty(Split(name, "/"))

\* str.lstrip(".")
RECURSIVE LStripDot(_)
LStripDot(s) ==
    IF s # <<>> /\ Head(s) = "." THEN LStripDot(Tail(s)) ELSE s

\* build_output_path
build_output_path(platform, scope_id) ==
    LET safe_scope == sanitize_path_component(scope_id)
    IN  PathJoin(PathJoin(<< <<"logs">> >>, <<"ingest">>),
                 platform \o <<"_">> \o safe_scope \o <<".", "jsonl">>)

\* build_output_path_with_ext
build_output_path_with_ext(platform, scope_id, ext) ==
    LET safe_scope == sanitize_path_component(scope_id)
        safe_ext   == LStripDot(ext)
    IN  PathJoin(PathJoin(<< <<"logs">> >>, <<"ingest">>),
                 platform \o <<"_">> \o safe_scope \o <<".">> \o safe_ext)

MaxScope == 3

\* the characters of the scope ids: safe ones, the separators, and the colon
ScopeChars == {"a", "C", "0", "_", ".", "-", "/", "\\", ":"}

PathInputs ==
    { [fn |-> "build_output_path", platform |-> <<"twitch">>, scope_id |-> sc,
       ext |-> <<"jsonl">>] : sc \in SeqsUpTo(ScopeChars, MaxScope) }
    \cup
    { [fn |-> "build_output_path_with_ext", platform |-> <<"twitter">>, scope_id |-> sc,
       ext |-> e] : sc \in SeqsUpTo(ScopeChars, MaxScope),
                    e \in { <<"json">>, <<".", "json">> } }

InitPath ==
    /\ pc = "input"
    /\ fnIn \in PathInputs
    /\ fnOut = None
    /\ RunIdle

ApplyBuildOutputPath ==
    /\ pc = "input"
    /\ fnIn.fn = "build_output_path"
    /\ pc' = "output"
    /\ fnOut' = [path |-> build_output_path(fnIn.platform, fnIn.scope_id)]
    /\ UNCHANGED <<fnIn, runVars>>

ApplyBuildOutputPathWithExt ==
    /\ pc = "input"
    /\ fnIn.fn = "build_output_path_with_ext"
    /\ pc' = "output"
    /\ fnOut' = [path |-> build_output_path_with_ext(fnIn.platform, fnIn.scope_id, fnIn.ext)]
    /\ UNCHANGED <<fnIn, runVars>>

NextPath == ApplyBuildOutputPath \/ ApplyBuildOutputPathWithExt

SpecPath == InitPath /\ [][NextPath]_vars

(***************************************************************************)
(* IngestRunner: one run of main                                           *)
(***************************************************************************)
MaxPages == 2

MaxTweets == 3

MaxLines == 2

MaxChunkLines == 2

MaxQuota == 2

Min(a, b) == IF a < b THEN a ELSE b

\* the tweets the search API may return for conversation 100
RunTweets ==
    { [id |-> <<"100">>, author_id |-> <<"7">>, created_at |-> IsoZ(1000), text |-> <<"h">>],
      [id |-> <<"101">>, author_id |-> <<"8">>, created_at |-> IsoZ(3000), text |-> <<" ", "h">>],
      [id |-> <<"102">>, author_id |-> <<>>, created_at |-> IsoZ(2000), text |-> <<"h">>] }

\* the data of one search page: up to n tweets, none of them twice
PageData(n) ==
    { q \in SeqsUpTo(RunTweets, n) : \A i, j \in 1..Len(q) : i < j => q[i] # q[j] }

RootTweet == CHOOSE t \in RunTweets : t.id = <<"100">>

\* what the chat server answers to a login it rejects, before it closes
LoginFailedNotice ==
    <<":", "x", " ", "NOTICE", " ", "*", " ", ":", "Login authentication failed">>

\* the lines the chat server may send to a login it accepted; one of them
\* carries a character of two bytes
RunLines ==
    { PrivmsgLine(<<"id", "=", "a", ";", "tmi-sent-ts", "=", "1", "5", "0", "0">>,
                  <<"n">>, <<"c">>, <<"h">>),
      PrivmsgLine(<<"id", "=", "a", ";", "tmi-sent-ts", "=", "1", "0", "0", "0">>,
                  <<"n">>, <<"C">>, <<"h">>),
      PrivmsgLine(<<>>, <<"n">>, <<"c">>, <<"h", "U+00E9">>),
      PrivmsgLine(<<>>, <<"n">>, <<"d">>, <<"h">>),
      PingLine,
      <<>> }

\* --out given with a name outside ASCII
OutGiven == <<"U+00E9", ".", "j", "s", "o", "n">>

\* --out is absent, and in one run of each source it is given
TwitterArgs ==
    { [conversation_id |-> <<"100">>, pages |-> p, max_results |-> 100, since_id |-> <<>>,
       out |-> <<>>] : p \in 0..MaxPages }
    \cup { [conversation_id |-> <<"100">>, pages |-> 1, max_results |-> 100,
            since_id |-> <<>>, out |-> OutGiven] }

\* --socket-timeout is a float of the command line: 0.8 s, which does not
\* divide the duration, and one negative value, which sock.settimeout rejects
TwitchArgs ==
    { [channel |-> c, duration |-> d, max_messages |-> q, socket_timeout |-> t,
       out |-> <<>>] :
          c \in { <<"#", "C">> }, d \in {1}, q \in 1..MaxQuota, t \in {800} }
    \cup { [channel |-> <<"#", "C">>, duration |-> 1, max_messages |-> 1,
            socket_timeout |-> -1, out |-> <<>>],
          [channel |-> <<"#", "C">>, duration |-> 1, max_messages |-> 1,
            socket_timeout |-> 800, out |-> OutGiven] }

TwitterKeys == { [twitter_bearer_token |-> t] : t \in { <<>>, <<"B">> } }

TwitchKeys ==
    { [twitch_oauth_token |-> t, twitch_bot_username |-> u] :
          t \in { <<>>, <<"x">> }, u \in { <<>>, <<"n">> } }

Init ==
    /\ pc = "main"
    /\ fnIn = None
    /\ fnOut = None
    /\ source \in {"twitter-thread", "twitch-chat"}
    /\ IF source = "twitter-thread"
       THEN args \in TwitterArgs /\ keys \in TwitterKeys
       ELSE args \in TwitchArgs /\ keys \in TwitchKeys
    /\ events = <<>>
    /\ exc = ""
    /\ exit_code = -1
    /\ now = 2000
    /\ messages = <<>>
    /\ next_token = <<>>
    /\ page = 0
    /\ delivered = 0
    /\ http = <<>>
    /\ root_tweet = None
    /\ twitterDoc = None
    /\ twitchLog = <<>>
    /\ channel = <<>>
    /\ deadline = 0
    /\ buffer = <<>>
    /\ inFlight = <<>>
    /\ linesSent = 0
    /\ sock = "none"
    /\ sent = <<>>
    /\ handled = <<>>
    /\ peer = "none"
    /\ received = <<>>
    /\ writes = 0

\* if not bearer_token
TwitterSecretMissing(k) == k.twitter_bearer_token = <<>>

\* run_twitter_thread up to the first search request
TwStart ==
    /\ pc = "main"
    /\ source = "twitter-thread"
    /\ IF TwitterSecretMissing(keys)
       THEN /\ events' = Append(events, "ingest_failed")
            /\ exit_code' = 1
            /\ pc' = "exit"
       ELSE /\ events' = Append(events, "ingest_started")
            /\ exit_code' = exit_code
            /\ pc' = "tw_search"
    /\ UNCHANGED <<fnVars, source, args, keys, writes, exc, now, messages, twitterVars, twitchVars>>

\* faulty variant: the page token is never put into the request
RequestToken_absent(token) == <<>>

\* params["next_token"] of the request, <<>> when the parameter is absent
RequestToken(token) == token

\* one HTTP request and the answer it got
Request(url, token, status, returned) ==
    [url |-> url, next_token |-> token, status |-> status, returned |-> returned]

\* one pass of the page loop of fetch_twitter_thread_messages, the search
\* answering 200 with `data`, includes.users `users` and meta.next_token `nt`
TwSearchPage(data, users, nt) ==
    /\ pc = "tw_search"
    /\ LET msgs == AppendTweets(messages, data, users, args.conversation_id, now)
       IN  IF nt = <<>> \/ page + 1 >= PageLimit(args.pages)
           THEN /\ messages' = FetchResult(msgs)
                /\ pc' = "tw_root"
           ELSE /\ messages' = msgs
                /\ pc' = "tw_search"
    /\ http' = Append(http, Request("search", RequestToken(next_token), 200, nt))
    /\ next_token' = nt
    /\ page' = page + 1
    /\ delivered' = delivered + Len(data)
    /\ UNCHANGED <<fnVars, mainVars, now, root_tweet, twitterDoc, twitchVars>>

RateLimited == "Twitter rate limited request (HTTP 429)."

\* faulty variant: a 429 is raised like any other status
SearchError_generic(status) == "HTTPError"

\* the exception a search answer of status >= 400 raises
SearchError(status) == IF status = 429 THEN RateLimited ELSE "HTTPError"

\* the search answering 429, or another status raise_for_status rejects
TwSearchError(status) ==
    /\ pc = "tw_search"
    /\ exc' = SearchError(status)
    /\ pc' = "raised"
    /\ http' = Append(http, Request("search", RequestToken(next_token), status, <<>>))
    /\ page' = page + 1
    /\ UNCHANGED <<fnVars, source, args, keys, writes, events, exit_code, now, messages,
                   next_token, delivered, root_tweet, twitterDoc, twitchVars>>

\* faulty variant: a 404 is rejected like any other status
LookupRaises_notFound(status) == status >= 400

\* the statuses of the lookup that raise: 404 returns None before raise_for_status
LookupRaises(status) == status # 404 /\ status >= 400

\* fetch_twitter_tweet_by_id and ensure_root_tweet_present; `tweet` is the
\* data of the answer, None for an answer without data
TwRootLookup(status, tweet, users) ==
    /\ pc = "tw_root"
    /\ ~LookupRaises(status)
    /\ status = 404 => tweet = None
    /\ http' = Append(http, Request("lookup", <<>>, status, <<>>))
    /\ root_tweet' = IF tweet = None THEN None
                     ELSE TweetToMessage(tweet, users, args.conversation_id, now)
    /\ messages' = ensure_root_tweet_present(messages, root_tweet')
    /\ pc' = "tw_write"
    /\ UNCHANGED <<fnVars, mainVars, now, next_token, page, delivered, twitterDoc, twitchVars>>

\* the lookup answering a status raise_for_status rejects
TwRootError(status) ==
    /\ pc = "tw_root"
    /\ LookupRaises(status)
    /\ http' = Append(http, Request("lookup", <<>>, status, <<>>))
    /\ exc' = "HTTPError"
    /\ pc' = "raised"
    /\ UNCHANGED <<fnVars, source, args, keys, writes, events, exit_code, now, messages,
                   next_token, page, delivered, root_tweet, twitterDoc, twitchVars>>

\* the text can be written to a stdout of this encoding
CanEncode(text, encoding) ==
    encoding = "utf-8" \/ \A i \in 1..Len(text) : text[i] \notin DOMAIN MultiByte

\* print(f"Ingested ... into {output_path}") returns: the path is --out, or
\* the path build_output_path makes, which is ASCII
Printable(a, encoding) == a.out = <<>> \/ CanEncode(a.out, encoding)

\* faulty variant: the output is written a second time
WriteCount_twice(n) == n + 2

\* the writes to the output path once the handler's one write call has returned
WriteCount(n) == n + 1

\* build_twitter_audit_payload, atomic_write_json and the rest of
\* run_twitter_thread, stdout having the encoding `encoding`: the print that
\* follows log_event("ingest_completed", ...) raises UnicodeEncodeError for a
\* path stdout cannot encode
TwWrite(encoding) ==
    /\ pc = "tw_write"
    /\ twitterDoc' = build_twitter_audit_payload(args.conversation_id, messages,
                         args.since_id, args.pages, args.max_results, now)
    /\ writes' = WriteCount(writes)
    /\ events' = Append(events, "ingest_completed")
    /\ IF Printable(args, encoding)
       THEN exit_code' = 0 /\ pc' = "exit" /\ exc' = exc
       ELSE exit_code' = exit_code /\ pc' = "raised" /\ exc' = "UnicodeEncodeError"
    /\ UNCHANGED <<fnVars, source, args, keys, now, messages,
                   next_token, page, delivered, http, root_tweet, twitchVars>>

\* atomic_write_json raising: the document at the path is not replaced
TwWriteFail ==
    /\ pc = "tw_write"
    /\ exc' = "OSError: write"
    /\ pc' = "raised"
    /\ UNCHANGED <<fnVars, source, args, keys, events, exit_code, writes, now, messages,
                   twitterVars, twitchVars>>

\* faulty variant: the exception is re-raised without a record
ExceptEvents_unrecorded(ev) == ev

\* log_event("ingest_error", ...) of main's except clause
ExceptEvents(ev) == Append(ev, "ingest_error")

\* main: except Exception: log_event("ingest_error", ...); raise
MainExcept ==
    /\ pc = "raised"
    /\ events' = ExceptEvents(events)
    /\ pc' = "crashed"
    /\ UNCHANGED <<fnVars, source, args, keys, writes, exc, exit_code, now, messages,
                   twitterVars, twitchVars>>

RunUsers == [u \in { <<"7">> } |-> <<"b", "o", "b">>]

NextTwitter ==
    \/ TwStart
    \/ \E data \in PageData(Min(MaxTweets - delivered, 2)) :
          \E nt \in { <<>>, <<"t", ToStr(page + 1)[1]>> } :
             TwSearchPage(data, RunUsers, nt)
    \/ \E status \in {429, 500} : TwSearchError(status)
    \/ \E status \in {200, 404} : \E tweet \in {None, RootTweet} :
          TwRootLookup(status, tweet, RunUsers)
    \/ \E status \in {404, 500} : TwRootError(status)
    \/ \E encoding \in {"utf-8", "ascii"} : TwWrite(encoding)
    \/ TwWriteFail

\* faulty variant: only the OAuth token is required
TwitchSecretMissing_tokenOnly(k) == k.twitch_oauth_token = <<>>

\* if not oauth_token ... if not bot_username
TwitchSecretMissing(k) == k.twitch_oauth_token = <<>> \/ k.twitch_bot_username = <<>>

\* run_twitch_chat up to the try statement of capture_twitch_chat_messages;
\* sock.settimeout raises ValueError for a negative timeout
TcStart ==
    /\ pc = "main"
    /\ source = "twitch-chat"
    /\ IF TwitchSecretMissing(keys)
       THEN /\ events' = Append(events, "ingest_failed")
            /\ exit_code' = 1
            /\ pc' = "exit"
            /\ UNCHANGED <<channel, deadline, sock, exc>>
       ELSE /\ events' = Append(events, "ingest_started")
            /\ exit_code' = exit_code
            /\ channel' = NormalizeChannel(args.channel)
            /\ deadline' = now + 1000 * (IF args.duration > 1 THEN args.duration ELSE 1)
            /\ sock' = "created"
            /\ IF args.socket_timeout < 0
               THEN exc' = "ValueError: Timeout value out of range" /\ pc' = "raised"
               ELSE exc' = exc /\ pc' = "tc_connect"
    /\ UNCHANGED <<fnVars, source, args, keys, writes, now, messages, twitterVars,
                   twitchLog, buffer, inFlight, received, linesSent, sent, handled, peer>>

\* the four lines the capture sends after connect
Handshake(oauth_token, bot_username, chan) ==
    << <<"PASS", " ">> \o normalize_twitch_oauth_token(oauth_token),
       <<"NICK", " ">> \o bot_username,
       <<"CAP REQ :twitch.tv/tags twitch.tv/commands">>,
       <<"JOIN", " ", "#">> \o chan >>

\* finally: try: sock.close() except OSError: pass
CloseSock(close_raises) == IF close_raises THEN "close_raised" ELSE "closed"

\* faulty variant: the error of close leaves the finally clause
AfterFinally_closeErrorEscapes(pending, close_raises) ==
    IF close_raises THEN "OSError: close" ELSE pending

\* the exception in flight once the finally clause has run
AfterFinally(pending, close_raises) == pending

\* sock.connect and the four lines of the handshake; the server accepts the
\* login or rejects it
TcConnect(accepts) ==
    /\ pc = "tc_connect"
    /\ sock' = "connected"
    /\ sent' = Handshake(keys.twitch_oauth_token, keys.twitch_bot_username, channel)
    /\ peer' = IF accepts THEN "accepting" ELSE "rejecting"
    /\ buffer' = <<>>
    /\ pc' = "tc_loop"
    /\ UNCHANGED <<fnVars, mainVars, now, messages, twitterVars,
                   twitchLog, channel, deadline, inFlight, received, linesSent, handled>>

\* sock.connect raising: the finally clause closes the socket
TcConnectFail(close_raises) ==
    /\ pc = "tc_connect"
    /\ sock' = CloseSock(close_raises)
    /\ exc' = AfterFinally("ConnectionRefusedError", close_raises)
    /\ pc' = "raised"
    /\ UNCHANGED <<fnVars, source, args, keys, writes, events, exit_code, now, messages,
                   twitterVars, twitchLog, channel, deadline, buffer, inFlight, received,
                   linesSent, sent, handled, peer>>

\* the k-th sock.sendall of the handshake raising
TcHandshakeFail(k, close_raises) ==
    /\ pc = "tc_connect"
    /\ sent' = SubSeq(Handshake(keys.twitch_oauth_token, keys.twitch_bot_username,
                                channel), 1, k - 1)
    /\ sock' = CloseSock(close_raises)
    /\ exc' = AfterFinally("BrokenPipeError", close_raises)
    /\ pc' = "raised"
    /\ UNCHANGED <<fnVars, source, args, keys, writes, events, exit_code, now, messages,
                   twitterVars, twitchLog, channel, deadline, buffer, inFlight, received,
                   linesSent, handled, peer>>

\* the bytes of one line as the server sends it
WireLine(l) == Encode(l) \o <<"\r", "\n">>

\* the offset of the first continuation byte of `piece`, 0 when it has none
RECURSIVE CharOffset(_, _)
CharOffset(piece, i) ==
    IF i > Len(piece) THEN 0
    ELSE IF \E c \in DOMAIN MultiByte : piece[i] = MultiByte[c][2] THEN i - 1
    ELSE CharOffset(piece, i + 1)

RECURSIVE Concat(_)
Concat(pieces) ==
    IF pieces = <<>> THEN <<>> ELSE Head(pieces) \o Concat(Tail(pieces))

\* where a read may end inside the last piece of what the server is sending:
\* in its middle, between the two bytes of a character, between its "\r" and
\* its "\n", or at its end
CutOffset(piece, cut) ==
    CASE cut = "middle" -> Len(piece) \div 2
      [] cut = "char" -> CharOffset(piece, 1)
      [] cut = "crlf" -> Len(piece) - 1
      [] cut = "end" -> Len(piece)

\* chunk = sock.recv(4096).decode("utf-8", errors="ignore"), buffer += chunk
\* and the inner loop, read at `clock`; a sock.sendall that raises leaves
\* through the finally clause
Receive(chunk, clock, send_fails) ==
    \E st \in { DrainBuffer([buffer |-> buffer \o Decode(chunk), messages |-> messages,
                             sent |-> sent, handled |-> handled,
                             send_fails |-> send_fails, exc |-> ""], channel, clock) } :
        /\ buffer' = st.buffer
        /\ messages' = st.messages
        /\ sent' = st.sent
        /\ handled' = st.handled
        /\ received' = received \o chunk
        /\ now' = clock
        /\ IF st.exc = ""
           THEN UNCHANGED <<pc, sock, exc>>
           ELSE \E close_raises \in BOOLEAN :
                   /\ sock' = CloseSock(close_raises)
                   /\ exc' = AfterFinally(st.exc, close_raises)
                   /\ pc' = "raised"

\* one pass of the receive loop in which recv returns data: the rest of the
\* line in flight, then the lines `ls`, the last of them up to the cut `cut`;
\* the read takes `elapsed` milliseconds
TcRecv(ls, cut, elapsed, send_fails) ==
    /\ pc = "tc_loop"
    /\ peer = "accepting"
    /\ LoopGuard(now, deadline, messages, args.max_messages)
    /\ LET pieces == (IF inFlight # <<>> THEN <<inFlight>> ELSE <<>>)
                        \o [i \in 1..Len(ls) |-> WireLine(ls[i])]
           last   == pieces[Len(pieces)]
           upto   == CutOffset(last, cut)
           chunk  == Concat(SubSeq(pieces, 1, Len(pieces) - 1)) \o SubSeq(last, 1, upto)
       IN  /\ pieces # <<>>
           /\ upto >= 1
           /\ inFlight' = Drop(last, upto)
           /\ Receive(chunk, now + elapsed, send_fails)
    /\ linesSent' = linesSent + Len(ls)
    /\ UNCHANGED <<fnVars, source, args, keys, writes, events, exit_code, twitterVars,
                   twitchLog, channel, deadline, peer>>

\* the read that returns the answer of a server that rejects the login; the
\* server then closes the connection
TcRecvRejection(elapsed) ==
    /\ pc = "tc_loop"
    /\ peer = "rejecting"
    /\ LoopGuard(now, deadline, messages, args.max_messages)
    /\ Receive(WireLine(LoginFailedNotice), now + elapsed, FALSE)
    /\ peer' = "closed"
    /\ UNCHANGED <<fnVars, source, args, keys, writes, events, exit_code, twitterVars,
                   twitchLog, channel, deadline, inFlight, linesSent>>

\* one pass of the receive loop in which recv returns b"": the server has
\* closed the connection; `if not chunk: continue`
TcRecvEmpty(elapsed) ==
    /\ pc = "tc_loop"
    /\ peer \in {"accepting", "closed"}
    /\ LoopGuard(now, deadline, messages, args.max_messages)
    /\ peer' = "closed"
    /\ now' = now + elapsed
    /\ UNCHANGED <<pc, fnVars, mainVars, messages, twitterVars, twitchLog, channel,
                   deadline, buffer, inFlight, received, linesSent, sock, sent, handled>>

\* faulty variant: a read timeout leaves the loop like any other error
RecvRaises_timeoutToo(error) == TRUE

\* the errors of sock.recv that leave the loop: `except socket.timeout: continue`
RecvRaises(error) == error # "timeout"

\* one pass of the receive loop in which recv raises socket.timeout
TcRecvTimeout ==
    /\ pc = "tc_loop"
    /\ peer \in {"accepting", "rejecting"}
    /\ LoopGuard(now, deadline, messages, args.max_messages)
    /\ ~RecvRaises("timeout")
    /\ now' = now + args.socket_timeout
    /\ UNCHANGED <<fnVars, mainVars, messages, twitterVars, twitchVars, pc>>

\* recv raising an error that leaves the loop: the finally clause closes the socket
TcRecvError(error, close_raises) ==
    /\ pc = "tc_loop"
    /\ LoopGuard(now, deadline, messages, args.max_messages)
    /\ RecvRaises(error)
    /\ sock' = CloseSock(close_raises)
    /\ exc' = AfterFinally(error, close_raises)
    /\ pc' = "raised"
    /\ UNCHANGED <<fnVars, source, args, keys, writes, events, exit_code, now, messages,
                   twitterVars, twitchLog, channel, deadline, buffer, inFlight, received,
                   linesSent, sent, handled, peer>>

\* the receive loop ending, the finally clause, and the return
TcLoopExit(close_raises) ==
    /\ pc = "tc_loop"
    /\ ~LoopGuard(now, deadline, messages, args.max_messages)
    /\ sock' = CloseSock(close_raises)
    /\ exc' = AfterFinally(exc, close_raises)
    /\ messages' = CaptureResult(messages)
    /\ pc' = IF exc' = "" THEN "tc_write" ELSE "raised"
    /\ UNCHANGED <<fnVars, source, args, keys, writes, events, exit_code, now, twitterVars,
                   twitchLog, channel, deadline, buffer, inFlight, received, linesSent, sent,
                   handled, peer>>

\* append_jsonl_many and the rest of run_twitch_chat, stdout having the
\* encoding `encoding`
TcWrite(encoding) ==
    /\ pc = "tc_write"
    /\ twitchLog' = twitchLog \o messages
    /\ writes' = WriteCount(writes)
    /\ events' = Append(events, "ingest_completed")
    /\ IF Printable(args, encoding)
       THEN exit_code' = 0 /\ pc' = "exit" /\ exc' = exc
       ELSE exit_code' = exit_code /\ pc' = "raised" /\ exc' = "UnicodeEncodeError"
    /\ UNCHANGED <<fnVars, source, args, keys, now, messages, twitterVars,
                   channel, deadline, buffer, inFlight, received, linesSent, sock, sent,
                   handled, peer>>

\* append_jsonl_many raising where it opens the log: nothing is appended
TcWriteFail ==
    /\ pc = "tc_write"
    /\ exc' = "OSError: write"
    /\ pc' = "raised"
    /\ UNCHANGED <<fnVars, source, args, keys, events, exit_code, writes, now, messages,
                   twitterVars, twitchVars>>

NextTwitch ==
    \/ TcStart
    \/ \E accepts \in BOOLEAN : TcConnect(accepts)
    \/ \E close_raises \in BOOLEAN : TcConnectFail(close_raises)
    \/ \E k \in 1..4 : \E close_raises \in BOOLEAN : TcHandshakeFail(k, close_raises)
    \/ \E k \in 0..Min(MaxChunkLines, MaxLines - linesSent) :
          \E ls \in [1..k -> RunLines] :
             \E cut \in {"middle", "char", "crlf", "end"} : \E elapsed \in {0, 800} :
                \E send_fails \in BOOLEAN : TcRecv(ls, cut, elapsed, send_fails)
    \/ \E elapsed \in {0, 800} : TcRecvRejection(elapsed)
    \/ \E elapsed \in {800} : TcRecvEmpty(elapsed)
    \/ TcRecvTimeout
    \/ \E error \in {"timeout", "ConnectionResetError"} : \E close_raises \in BOOLEAN :
          TcRecvError(error, close_raises)
    \/ \E close_raises \in BOOLEAN : TcLoopExit(close_raises)
    \/ \E encoding \in {"utf-8", "ascii"} : TcWrite(encoding)
    \/ TcWriteFail

Next == NextTwitter \/ NextTwitch \/ MainExcept

Spec == Init /\ [][Next]_vars

\* the parser on its own inputs, and the parser as the runs call it
SpecParseAndRun == (InitParse \/ Init) /\ [][NextParse \/ Next]_vars

(***************************************************************************)
(* The runs with a server that never stops sending: every read may return  *)
(* one more line, counted against no bound, and every read takes time      *)
(***************************************************************************)
\* what the endless stream is made of: lines that are not PRIVMSG, and one
\* that is
LiveLines ==
    { PingLine, NoticeLine, PrivmsgLine(<<>>, <<"n">>, <<"c">>, <<"h">>) }

\* how long a read that returns data may take, in milliseconds: less than the
\* read timeout, or all of it
LiveElapsed == {400, 800}

NextTwitchLive ==
    \/ TcStart
    \/ \E accepts \in BOOLEAN : TcConnect(accepts)
    \/ \E close_raises \in BOOLEAN : TcConnectFail(close_raises)
    \/ \E k \in 1..4 : \E close_raises \in BOOLEAN : TcHandshakeFail(k, close_raises)
    \/ \E line \in LiveLines :
          \E cut \in {"middle", "end"} : \E elapsed \in LiveElapsed :
             \E send_fails \in BOOLEAN : TcRecv(<<line>>, cut, elapsed, send_fails)
    \/ \E elapsed \in LiveElapsed : TcRecvRejection(elapsed)
    \/ \E elapsed \in {800} : TcRecvEmpty(elapsed)
    \/ TcRecvTimeout
    \/ \E error \in {"timeout", "ConnectionResetError"} : \E close_raises \in BOOLEAN :
          TcRecvError(error, close_raises)
    \/ \E close_raises \in BOOLEAN : TcLoopExit(close_raises)
    \/ \E encoding \in {"utf-8", "ascii"} : TcWrite(encoding)
    \/ TcWriteFail

NextLive == NextTwitter \/ NextTwitchLive \/ MainExcept

\* what keeps the capture going: the interpreter runs the statements up to
\* the loop, and the guard that ends the loop, when it comes to them, and a
\* read that receives nothing returns when the read timeout has passed, as a
\* timeout or, on a closed connection, as an empty read
CaptureProceeds ==
    \/ TcStart
    \/ \E accepts \in BOOLEAN : TcConnect(accepts)
    \/ TcRecvTimeout
    \/ \E elapsed \in {800} : TcRecvEmpty(elapsed)
    \/ \E close_raises \in BOOLEAN : TcLoopExit(close_raises)

SpecLive == Init /\ [][NextLive]_vars /\ WF_vars(CaptureProceeds)

(***************************************************************************)
(* normalize_twitch_oauth_token on its own inputs, applied once and twice  *)
(***************************************************************************)
MaxToken == 3

\* the parts of the tokens: the prefix, the prefix in capitals, other text
TokenParts == {"oauth:", "OAUTH:", "x", " "}

NormalizeInputs ==
    { [fn |-> "normalize_twitch_oauth_token", token |-> t] :
          t \in SeqsUpTo(TokenParts, MaxToken) }

InitNormalize ==
    /\ pc = "input"
    /\ fnIn \in NormalizeInputs
    /\ fnOut = None
    /\ RunIdle

ApplyNormalize ==
    /\ pc = "input"
    /\ pc' = "output"
    /\ fnOut' = [once |-> normalize_twitch_oauth_token(fnIn.token)]
    /\ UNCHANGED <<fnIn, runVars>>

\* the result of the first call is normalized again
ApplyNormalizeAgain ==
    /\ pc = "output"
    /\ fnIn # None
    /\ pc' = "again"
    /\ fnOut' = [once |-> fnOut.once, twice |-> normalize_twitch_oauth_token(fnOut.once)]
    /\ UNCHANGED <<fnIn, runVars>>

NextNormalize == ApplyNormalize \/ ApplyNormalizeAgain

\* the function on its own inputs, and the function as the captures call it
SpecNormalizeAndRun == (InitNormalize \/ Init) /\ [][NextNormalize \/ Next]_vars

(***************************************************************************)
(* Properties                                                              *)
(***************************************************************************)
Range(q) == { q[i] : i \in 1..Len(q) }

\* a list of messages is non-decreasing in sent_at_utc
NonDecreasing(ms) ==
    \A i, j \in 1..Len(ms) : i < j => IsoLeq(ms[i].sent_at_utc, ms[j].sent_at_utc)

\* the message a Main payload was made from
MessageOf(p) ==
    [platform |-> p.platform, scope |-> p.scope, message_id |-> p.message_id,
     username |-> p.username, user_id |-> p.user_id,
     sent_at_utc |-> p.sent_at_utc, captured_at_utc |-> p.captured_at_utc,
     text |-> p.text]

\* two records of one list with the same message_id in the same scope
NoDuplicateIds(ms) ==
    \A i, j \in 1..Len(ms) :
        i < j => ~(ms[i].scope = ms[j].scope /\ ms[i].message_id = ms[j].message_id)

\* the messages of a Twitter document: Main, then its replies
DocMessages(doc) ==
    IF doc.Main = None THEN <<>>
    ELSE <<MessageOf(doc.Main)>>
            \o (IF doc.Main.replies = None THEN <<>> ELSE doc.Main.replies.list)

\* C1: in a Twitter thread run and in a Twitch capture run the messages that
\* reach the output hold no two records with the same message_id in the same
\* scope: of a message_id delivered more than once only the first is kept.
C1_NoDuplicateIds ==
    /\ twitterDoc # None => NoDuplicateIds(DocMessages(twitterDoc))
    /\ NoDuplicateIds(twitchLog)

\* C2: capture_twitch_chat_messages never returns more than max_messages
\* messages, however the server's lines are split across received chunks.
C2_QuotaRespected ==
    pc = "tc_write" => Len(messages) <= args.max_messages

\* C3: the list capture_twitch_chat_messages returns, and the channel log it
\* is appended to, is non-decreasing in sent_at_utc.
C3_CaptureOrdered ==
    /\ pc = "tc_write" => NonDecreasing(messages)
    /\ NonDecreasing(twitchLog)

Occurrences(ms, id) == Cardinality({ i \in 1..Len(ms) : ms[i].message_id = id })

\* C4: after assembly in a Twitter thread run, whenever the root tweet was
\* resolved, the list ensure_root_tweet_present returned holds the root's
\* message_id exactly once.
C4_RootExactlyOnce ==
    pc = "tw_write" /\ root_tweet # None =>
        Occurrences(messages, root_tweet.message_id) = 1

EnsureRootDone ==
    pc = "output" /\ fnIn.fn = "ensure_root_tweet_present" /\ fnIn.root # None

\* C5: ensure_root_tweet_present with a non-null root: when the root's id is
\* absent from the list the result is one longer, contains the root and is
\* sorted by sent_at_utc, also for an unsorted input; when it is present the
\* result has the length of the input.
C5_EnsureRootLengthAndOrder ==
    EnsureRootDone =>
        IF fnIn.root.message_id \notin MessageIds(fnIn.msgs)
        THEN /\ Len(fnOut.list) = Len(fnIn.msgs) + 1
             /\ fnIn.root \in Range(fnOut.list)
             /\ NonDecreasing(fnOut.list)
        ELSE Len(fnOut.list) = Len(fnIn.msgs)

C5_Witness ==
    /\ EnsureRootDone
    /\ fnIn.root.message_id \notin MessageIds(fnIn.msgs)
    /\ ~NonDecreasing(fnIn.msgs)
    /\ Len(fnOut.list) = 3

BuildDone == pc = "output" /\ fnIn.fn = "build_twitter_audit_payload"

\* the messages of the input whose id is not Main's
NonMain == { m \in Range(fnIn.msgs) : m.message_id # fnOut.Main.message_id }

\* C6: build_twitter_audit_payload: Main is the message with the requested
\* conversation id when there is one, otherwise the message with the earliest
\* sent_at_utc; for the empty list Main is null.
C6_MainSelection ==
    BuildDone =>
        IF fnIn.msgs = <<>> THEN fnOut.Main = None
        ELSE /\ fnOut.Main # None
             /\ MessageOf(fnOut.Main) \in Range(fnIn.msgs)
             /\ IF fnIn.conversation_id \in MessageIds(fnIn.msgs)
                THEN fnOut.Main.message_id = fnIn.conversation_id
                ELSE \A m \in Range(fnIn.msgs) :
                        IsoLeq(fnOut.Main.sent_at_utc, m.sent_at_utc)

C6_Witness ==
    /\ BuildDone
    /\ Len(fnIn.msgs) = 2
    /\ fnOut.Main # None
    /\ fnOut.Main.message_id = fnIn.conversation_id
    /\ \E m \in Range(fnIn.msgs) :
          /\ m.message_id # fnIn.conversation_id
          /\ ~IsoLeq(fnOut.Main.sent_at_utc, m.sent_at_utc)

\* C7: build_twitter_audit_payload: when there are messages other than Main
\* (messages whose id is not Main's), Main.replies is a non-null list in
\* non-decreasing sent_at_utc order whose first element is the earliest of
\* them, whatever the order of the input.
C7_RepliesOrdered ==
    BuildDone /\ fnOut.Main # None /\ NonMain # {} =>
        /\ fnOut.Main.replies # None
        /\ fnOut.Main.replies.list # <<>>
        /\ NonDecreasing(fnOut.Main.replies.list)
        /\ fnOut.Main.replies.list[1] \in NonMain
        /\ \A m \in NonMain :
              IsoLeq(fnOut.Main.replies.list[1].sent_at_utc, m.sent_at_utc)

C7_Witness ==
    /\ BuildDone
    /\ fnOut.Main # None
    /\ Cardinality(NonMain) = 2
    /\ ~NonDecreasing(fnIn.msgs)
    /\ fnOut.Main.replies # None
    /\ fnOut.Main.replies.list[1] # fnIn.msgs[1]

ReplyCountOf(payload) ==
    IF payload.Main = None THEN 0
    ELSE IF payload.Main.replies = None THEN 0
    ELSE Len(payload.Main.replies.list)

\* C8: build_twitter_audit_payload: Main.replies is null, never an empty list,
\* exactly when no message has an id other than Main's, and then
\* meta.reply_count is 0; in every payload meta.reply_count is the length of
\* Main.replies (0 for null).
C8_RepliesNullIffNone ==
    BuildDone =>
        /\ fnOut.Main # None =>
              /\ (fnOut.Main.replies = None) <=> (NonMain = {})
              /\ fnOut.Main.replies # None => fnOut.Main.replies.list # <<>>
              /\ fnOut.Main.replies = None => fnOut.meta.reply_count = 0
        /\ fnOut.meta.reply_count = ReplyCountOf(fnOut)

C8_Witness ==
    /\ BuildDone
    /\ Len(fnIn.msgs) = 1
    /\ fnOut.Main # None
    /\ fnOut.Main.replies = None
    /\ fnOut.meta.reply_count = 0

CasePairs == { <<"c", "C">>, <<"d", "D">>, <<"n", "N">> }

SameLetter(x, y) == x = y \/ <<x, y>> \in CasePairs \/ <<y, x>> \in CasePairs

\* two names are equal up to the case of their letters
EqualsIgnoreCase(a, b) ==
    Len(a) = Len(b) /\ \A i \in 1..Len(a) : SameLetter(a[i], b[i])

IsLowerCase(a) == \A i \in 1..Len(a) : \A p \in CasePairs : a[i] # p[2]

ParseDone == pc = "output" /\ fnIn # None /\ fnIn.valid

\* the channel of the JOIN line the capture sent
JoinedChannel == Drop(sent[4], 3)

\* C9: parse_twitch_privmsg returns None for every PRIVMSG line whose channel
\* differs from the expected channel, the comparison ignoring case: a line for
\* another spelling of the expected channel is accepted, and the scope of the
\* message is channel:<the channel in lower case>; so every message of a
\* capture has the scope channel:<the channel it joined>.
C9_ChannelGuard ==
    /\ ParseDone =>
          IF EqualsIgnoreCase(fnIn.channel, fnIn.expected)
          THEN /\ fnOut # None
               /\ Len(fnOut.scope) = Len(fnIn.expected) + 1
               /\ fnOut.scope[1] = "channel:"
               /\ EqualsIgnoreCase(Tail(fnOut.scope), fnIn.expected)
               /\ IsLowerCase(Tail(fnOut.scope))
          ELSE fnOut = None
    /\ pc \in {"tc_loop", "tc_write"} =>
          \A m \in Range(messages) : m.scope = <<"channel:">> \o JoinedChannel

C9_Witness ==
    /\ ParseDone
    /\ fnIn.channel = <<"d">>
    /\ fnIn.expected = <<"c">>
    /\ fnOut = None

\* t is p without its leading and trailing whitespace
IsTrimOf(t, p) ==
    /\ \E i \in 0..Len(p) : \E j \in i..Len(p) :
          /\ t = SubSeq(p, i + 1, j)
          /\ \A k \in 1..Len(p) : (k <= i \/ k > j) => p[k] \in Whitespace
    /\ t # <<>> => t[1] \notin Whitespace /\ t[Len(t)] \notin Whitespace

ParseAccepted == ParseDone /\ EqualsIgnoreCase(fnIn.channel, fnIn.expected)

IsPing(line) == Len(line) >= 2 /\ line[1] = "PING" /\ line[2] = " "

PingToken(line) == SubSeq(line, 3, Len(line))

\* the lengths of sent and of messages when the i-th handled line was taken
SentBefore(i) == IF i = 1 THEN 4 ELSE handled[i - 1].sent

MessagesBefore(i) == IF i = 1 THEN 0 ELSE handled[i - 1].messages

\* C11: in the receive loop every complete PING line is answered with exactly
\* one PONG carrying the PING's token, sent before the next line is taken, and
\* adds no message; no other line makes the capture send anything, and no
\* complete line is left in the buffer when the loop reads again.
C11_PingAnswered ==
    /\ \A i \in 1..Len(handled) :
          IF IsPing(handled[i].line)
          THEN /\ handled[i].sent = SentBefore(i) + 1
               /\ sent[handled[i].sent] = <<"PONG", " ">> \o PingToken(handled[i].line)
               /\ handled[i].messages = MessagesBefore(i)
          ELSE handled[i].sent = SentBefore(i)
    /\ handled # <<>> => Len(sent) = handled[Len(handled)].sent
    /\ pc = "tc_loop" => ~MoreLines(buffer)

\* a PING handled between the handshake and a PRIVMSG that became a message
C11_Witness ==
    \E i, j \in 1..Len(handled) :
        /\ i < j
        /\ IsPing(handled[i].line)
        /\ handled[j].messages > handled[i].messages
        /\ pc = "tc_write"

\* a capture whose reads have all timed out, and which has returned
OnlyTimeoutsReturned ==
    /\ source = "twitch-chat"
    /\ peer = "accepting"
    /\ linesSent = 0
    /\ pc \in {"tc_write", "exit"}

\* C12: a read timeout never leaves the receive loop as an exception, and a
\* capture that has only seen timeouts returns normally, with no message, at
\* the first check of the guard at or after the deadline: never before the
\* deadline, and less than one read timeout after it.
C12_TimeoutsDoNotEndCapture ==
    /\ exc # "timeout"
    /\ OnlyTimeoutsReturned =>
          /\ now >= deadline
          /\ now - deadline < args.socket_timeout
          /\ messages = <<>>
          /\ exc = ""
          /\ sock \in {"closed", "close_raised"}

\* two timeouts, the second of them ending after the deadline
C12_Witness ==
    /\ OnlyTimeoutsReturned
    /\ pc = "tc_write"
    /\ now = deadline - 1000 * args.duration + 2 * args.socket_timeout
    /\ now > deadline

\* the capture has been left, by a return or by an exception
CaptureLeft ==
    /\ source = "twitch-chat"
    /\ sock # "none"
    /\ pc \in {"tc_write", "exit", "raised", "crashed"}

\* the exception of sock.settimeout, raised before the try statement
BeforeTry == exc = "ValueError: Timeout value out of range"

\* C13: once the try statement of capture_twitch_chat_messages was entered,
\* every way out of it closes the socket: the return at deadline or quota, a
\* failed connect, a failed send of the handshake or of a PONG, a receive
\* error; an error of close is suppressed: the capture still returns, or
\* still raises the exception it was leaving with.
C13_SocketClosedOnEveryExit ==
    /\ CaptureLeft /\ ~BeforeTry => sock \in {"closed", "close_raised"}
    /\ pc = "tc_loop" => sock = "connected"
    /\ exc # "OSError: close"
    /\ CaptureLeft /\ exc # "" =>
          exc \in {"ValueError: Timeout value out of range", "ConnectionRefusedError",
                   "BrokenPipeError", "ConnectionResetError", "OSError: write",
                   "UnicodeEncodeError"}

\* the send of a PONG failed, and so did close: the send's error is raised
C13_Witness ==
    /\ pc = "raised"
    /\ sock = "close_raised"
    /\ exc = "BrokenPipeError"
    /\ Len(sent) = 4

\* the server rejected the PASS/NICK login of this capture
LoginRejected ==
    \/ peer = "rejecting"
    \/ \E i \in 1..Len(handled) : handled[i].line = LoginFailedNotice

\* C14: a capture whose connect fails, or whose login the server rejects,
\* raises: it never returns a list of messages to run_twitch_chat.
C14_LoginFailureRaises ==
    /\ exc = "ConnectionRefusedError" => pc \in {"raised", "crashed"}
    /\ LoginRejected => pc \notin {"tc_write", "exit"}

IsSearch(q) == q.url = "search"

\* the search requests of the run, in the order they were issued
Searches == SelectSeq(http, IsSearch)

\* C15: fetch_twitter_thread_messages issues at least one and at most
\* max(1, pages) search requests; the first carries no page token, and every
\* later one follows an answer that carried a next-page token and carries
\* exactly that token.
C15_PagingBounded ==
    source = "twitter-thread" =>
        /\ Len(Searches) <= (IF args.pages > 1 THEN args.pages ELSE 1)
        /\ pc \in {"tw_root", "tw_write"} => Len(Searches) >= 1
        /\ Searches # <<>> => Searches[1].next_token = <<>>
        /\ \A i \in 2..Len(Searches) :
              /\ Searches[i - 1].status = 200
              /\ Searches[i - 1].returned # <<>>
              /\ Searches[i].next_token = Searches[i - 1].returned

\* two pages were asked for and fetched, the second with the first's token;
\* its answer names a third page, which is not requested
C15_Witness ==
    /\ pc = "tw_root"
    /\ args.pages = 2
    /\ Len(Searches) = 2
    /\ Searches[2].next_token = <<"t", "1">>
    /\ Searches[2].returned = <<"t", "2">>

\* C16: once a search page has answered 429 the run has raised the
\* rate-limited error: that request is the last one of the run (no retry, no
\* next page, no root lookup), the run returns no exit code, and no document
\* is written, whatever earlier pages had delivered.
C16_RateLimitIsFatal ==
    (\E i \in 1..Len(http) : http[i].status = 429) =>
        /\ http[Len(http)].status = 429
        /\ \A i \in 1..(Len(http) - 1) : http[i].url = "search" /\ http[i].status = 200
        /\ exc = "Twitter rate limited request (HTTP 429)."
        /\ pc \in {"raised", "crashed"}
        /\ exit_code = -1
        /\ twitterDoc = None

\* the second page answers 429 after the first delivered tweets
C16_Witness ==
    /\ pc = "crashed"
    /\ Len(http) = 2
    /\ http[2].status = 429
    /\ messages # <<>>

\* the root lookup of this run answered 404
RootNotFound ==
    \E i \in 1..Len(http) : http[i].url = "lookup" /\ http[i].status = 404

\* C17: a 404 of the root lookup is not an error: the lookup yields no
\* message, ensure_root_tweet_present returns the paged messages as they
\* were, and the run goes on to write its payload and return 0 (only the
\* write itself, or the print after it, can still fail it).
C17_RootNotFoundIsNotAnError ==
    /\ [](RootNotFound =>
            /\ root_tweet = None
            /\ pc \in {"tw_write", "exit", "raised", "crashed"}
            /\ exc \in {"", "OSError: write", "UnicodeEncodeError"}
            /\ pc = "exit" =>
                  /\ exit_code = 0
                  /\ twitterDoc # None
                  /\ twitterDoc.meta.tweet_count = Len(messages))
    /\ [][pc = "tw_root" /\ RootNotFound' => pc' = "tw_write" /\ messages' = messages]_vars

\* a run that fetched tweets, got a 404 for the root, and returned 0
C17_Witness ==
    /\ RootNotFound
    /\ pc = "exit"
    /\ exit_code = 0
    /\ messages # <<>>
    /\ twitterDoc.Main # None

\* a secret the selected source requires is missing
RequiredSecretMissing ==
    IF source = "twitter-thread"
    THEN keys.twitter_bearer_token = <<>>
    ELSE keys.twitch_oauth_token = <<>> \/ keys.twitch_bot_username = <<>>

\* C18: a run with a required secret missing returns 1 and does not raise; it
\* issues no HTTP request, makes no socket, sends nothing, and writes neither
\* the Twitter document nor the Twitch log.
C18_MissingSecretExit ==
    RequiredSecretMissing =>
        /\ pc \in {"main", "exit"}
        /\ pc = "exit" => exit_code = 1
        /\ exc = ""
        /\ http = <<>>
        /\ sock = "none"
        /\ sent = <<>>
        /\ twitterDoc = None
        /\ twitchLog = <<>>

\* twitch-chat with the OAuth token but no bot username
C18_Witness ==
    /\ source = "twitch-chat"
    /\ keys.twitch_oauth_token # <<>>
    /\ keys.twitch_bot_username = <<>>
    /\ pc = "exit"
    /\ exit_code = 1

\* C19: an exception of the handler never ends in an exit code, and when it
\* has left main the last record of the event log is the ingest_error event
\* that main appended before re-raising it.
C19_FailuresRecorded ==
    /\ exc # "" => pc \in {"raised", "crashed"} /\ exit_code = -1
    /\ pc \in {"raised", "crashed"} => exc # ""
    /\ pc = "crashed" => events # <<>> /\ events[Len(events)] = "ingest_error"

\* the write of the Twitter document failed, and the failure left main
C19_Witness ==
    /\ pc = "crashed"
    /\ exc = "OSError: write"
    /\ source = "twitter-thread"
    /\ events = <<"ingest_started", "ingest_error">>

PathDone == pc = "output" /\ fnIn.fn \in {"build_output_path", "build_output_path_with_ext"}

\* the file name the scope id must give: platform, "_", the scope id with
\* every character outside [A-Za-z0-9_.-] replaced by "_", ".", the extension
ExpectedName(platform, scope_id, ext) ==
    platform \o <<"_">>
        \o [i \in 1..Len(scope_id) |->
               IF scope_id[i] \in {"a", "C", "0", "_", ".", "-"} THEN scope_id[i] ELSE "_"]
        \o <<".">> \o ext

\* C20: the output path is logs/ingest/<file name>, three segments, whatever
\* the scope id holds; the file name is fixed by the platform and the scope
\* id, with every character of the scope id outside [A-Za-z0-9_.-] replaced
\* by "_", so it holds no "/", "\" or ":".
C20_PathIsOneSafeSegment ==
    PathDone =>
        /\ Len(fnOut.path) = 3
        /\ fnOut.path[1] = <<"logs">>
        /\ fnOut.path[2] = <<"ingest">>
        /\ fnOut.path[3] = ExpectedName(fnIn.platform, fnIn.scope_id,
                                        IF fnIn.ext = <<".", "json">> THEN <<"json">>
                                        ELSE fnIn.ext)
        /\ \A i \in 1..Len(fnOut.path[3]) : fnOut.path[3][i] \notin {"/", "\\", ":"}

\* a scope id of a safe character, a "/" and a ":"
C20_Witness ==
    /\ PathDone
    /\ fnIn.fn = "build_output_path"
    /\ fnIn.scope_id = <<"a", "/", ":">>
    /\ fnOut.path[3] = <<"twitch", "_", "a", "_", "_", ".", "jsonl">>

HasOAuthPrefix(token) == token # <<>> /\ token[1] = "oauth:"

\* C21: normalize_twitch_oauth_token applied to its own result returns it
\* unchanged; a token that starts with oauth: is returned unchanged; every
\* non-empty token comes back with the oauth: prefix, so the PASS line of
\* every capture carries it (run_twitch_chat passes no empty token).
C21_NormalizeIdempotent ==
    /\ pc \in {"output", "again"} =>
          /\ HasOAuthPrefix(fnIn.token) => fnOut.once = fnIn.token
          /\ fnIn.token # <<>> => HasOAuthPrefix(fnOut.once)
          /\ ~HasOAuthPrefix(fnIn.token) /\ fnIn.token # <<>> =>
                Tail(fnOut.once) = fnIn.token
          /\ fnIn.token = <<>> => fnOut.once = <<>>
    /\ pc = "again" => fnOut.twice = fnOut.once
    /\ pc \in {"tc_loop", "tc_write"} =>
          /\ sent[1][1] = "PASS"
          /\ HasOAuthPrefix(Drop(sent[1], 2))

\* a token with the prefix in capitals, normalized twice
C21_Witness ==
    /\ pc = "again"
    /\ fnIn.token = <<"OAUTH:", "x">>
    /\ fnOut.twice = <<"oauth:", "OAUTH:", "x">>

\* the non-empty lines that end with CRLF in `text`, in order
RECURSIVE CompleteLines(_)
CompleteLines(text) ==
    IF FindCRLF(text, 1) = 0 THEN <<>>
    ELSE (IF FindCRLF(text, 1) = 1 THEN <<>> ELSE <<SubSeq(text, 1, FindCRLF(text, 1) - 1)>>)
             \o CompleteLines(Drop(text, FindCRLF(text, 1) + 1))

\* what follows the last CRLF of `text`
RECURSIVE AfterLastCRLF(_)
AfterLastCRLF(text) ==
    IF FindCRLF(text, 1) = 0 THEN text
    ELSE AfterLastCRLF(Drop(text, FindCRLF(text, 1) + 1))

\* the lines the loop has handled, in the order it handled them
HandledLines == [i \in 1..Len(handled) |-> handled[i].line]

\* the capture is in its loop or has returned, and no send has raised
LinesSettled == source = "twitch-chat" /\ pc \in {"tc_loop", "tc_write", "exit"} /\ exc = ""

\* C23: the line handling of the receive loop does not depend on how the
\* byte stream is cut into reads: the lines handled are, once each and in
\* arrival order, the CRLF-terminated lines of the whole stream received so
\* far, a line cut across reads being handled as the line it was sent as, and
\* the buffer holds what follows the last CRLF
C23_ChunkingIndependent ==
    LinesSettled =>
        /\ HandledLines = CompleteLines(Decode(received))
        /\ buffer = AfterLastCRLF(Decode(received))

\* the run's fetch or capture, or its write, raised: the one exception that
\* is raised later is that of the print that ends the handler
RunRaised == exc \notin {"", "UnicodeEncodeError"}

\* the output file is as it was before the run
OutputUntouched == writes = 0 /\ twitterDoc = None /\ twitchLog = <<>>

\* C25: the output is written only after the fetch or capture finished
\* without error: a run whose search, root lookup or capture raised leaves
\* the output file as it was, whatever it had collected, and a run that
\* returned 0 has written the output file exactly once
C25_OutputOnlyAfterSuccess ==
    /\ RunRaised => OutputUntouched
    /\ ~OutputUntouched =>
           /\ pc \in {"exit", "raised", "crashed"}
           /\ ~RunRaised
           /\ writes = 1
    /\ (pc = "exit" /\ exit_code = 0) => writes = 1
    /\ (pc = "exit" /\ exit_code = 0 /\ source = "twitter-thread") =>
           twitterDoc # None
    /\ (pc = "exit" /\ exit_code = 0 /\ source = "twitch-chat") => twitchLog = messages

\* a capture that had collected a message when a read raised, and whose log
\* has no line
C25_Witness ==
    /\ pc = "crashed"
    /\ source = "twitch-chat"
    /\ exc = "ConnectionResetError"
    /\ messages # <<>>
    /\ OutputUntouched

\* the run has ended: main returned or re-raised
RunEnded == pc \in {"exit", "crashed"}

\* C24: the event log of one run has a fixed shape: ingest_started is
\* recorded at most once and only when the credential check passed; a run
\* that recorded it then records exactly one of ingest_completed, the handler
\* having returned 0 after its write, and ingest_error, the handler having
\* raised, never both; a run that fails the credential check records
\* ingest_failed and none of the other three
C24_EventLogShape ==
    /\ events \in { <<>>, <<"ingest_failed">>, <<"ingest_started">>,
                     <<"ingest_started", "ingest_completed">>,
                     <<"ingest_started", "ingest_error">> }
    /\ "ingest_started" \in Range(events) => ~RequiredSecretMissing
    /\ (RunEnded /\ RequiredSecretMissing) => events = <<"ingest_failed">>
    /\ (RunEnded /\ ~RequiredSecretMissing) => Len(events) = 2
    /\ "ingest_completed" \in Range(events) => pc = "exit" /\ exit_code = 0 /\ writes = 1
    /\ "ingest_error" \in Range(events) => pc = "crashed" /\ exc # ""

\* the capture is running: between socket.socket and the finally clause
CaptureRunning == pc \in {"tc_connect", "tc_loop"}

\* the capture returned or raised
CaptureOver == pc \in {"tc_write", "raised", "exit", "crashed"}

\* C22: with time advancing and every read returning within the read
\* timeout, the capture always ends: it returns or raises whatever the server
\* does, and the loop is left at the first test of its guard that finds the
\* deadline elapsed or the quota reached
C22_CaptureTerminates ==
    /\ CaptureRunning ~> CaptureOver
    /\ [][(pc = "tc_loop" /\ (now >= deadline \/ Len(messages) >= args.max_messages))
              => pc' \in {"tc_write", "raised"}]_vars
    /\ [](pc = "tc_loop" => now < deadline + args.socket_timeout)

\* a capture that has returned without a message from a server that sent more
\* lines than MaxLines, none of them a PRIVMSG, until the deadline
C22_Witness ==
    /\ pc = "tc_write"
    /\ messages = <<>>
    /\ Len(handled) > MaxLines
    /\ now >= deadline

====
